---- MODULE Spec2Model ----
(***************************************************************************)
(* The filtering-and-aggregation pipeline of the IPL analytics dashboard   *)
(* (src/app.py).  The dashboard is a Streamlit script: every change of a   *)
(* sidebar widget re-executes the whole script, which takes the cached     *)
(* tables, filters them by the current selections and recomputes every     *)
(* aggregation in source order.  An uncaught exception ends the script     *)
(* run at the raising line; the steps after it are not executed.           *)
(*                                                                         *)
(* A table (DataFrame) is a sequence of rows, a row a record.  A float is  *)
(* kept as an exact fraction, see Frac.  The steps modelled are the        *)
(* loader and its cache, the filters, the wins by team, the result types,  *)
(* the title winners, the win percentages, the wicket takers, the toss     *)
(* advantage, the phase column and its statistics, the head-to-head        *)
(* matrix, the comparison of two teams and the consistent teams            *)
(* (StepOrder); the charts drawn from them are not.                        *)
(*                                                                         *)
(* Spec runs the script on small tables, SpecRates adds calls of the two   *)
(* rate helpers, SpecLoad the files, the clock and the cache, SpecCompare  *)
(* the two selectboxes of the comparison, SpecLeague a table of twelve     *)
(* teams.                                                                  *)
(***************************************************************************)
EXTENDS Integers, Sequences, FiniteSets, TLC

VARIABLES
    files,                \* lines 112-113: data/matches.csv, data/deliveries.csv
    cache,                \* lines 103-104: the tables st.cache_data holds
    cache_age,            \* seconds since the cached tables were stored
    loads,                \* executions of the body of load_data so far
    last_read,            \* the files the last execution of the body found
    load_error,           \* lines 141, 145: the st.error of the last run
    matches,              \* line 179: the loaded match table
    deliveries,           \* line 179: the loaded delivery table
    selected_season,      \* line 195: season multiselect
    selected_teams,       \* line 204: team multiselect
    selected_venues,      \* line 213: venue multiselect
    filtered_matches,     \* lines 226-238
    filtered_deliveries,  \* line 242
    wins_by_team,         \* lines 338-340
    win_type_counts,      \* lines 386-392
    title_counts,         \* lines 417-420
    team_stats,           \* lines 439-448
    team_stats_df,        \* line 450
    top_wicket_takers,    \* lines 501-506
    toss_advantage,       \* lines 719-722
    phase_data,           \* lines 804-808
    phase_stats,          \* lines 810-814
    pivot_data,           \* lines 863-869
    heatmap_data,         \* lines 871-873
    team1_select,         \* line 900: selectbox "Select Team 1"
    team2_select,         \* line 903: selectbox "Select Team 2"
    h2h,                  \* lines 905-914
    consistency_stats,    \* lines 955-969
    exception,            \* the exception that ended the last script run
    rate_call             \* the last direct call of a rate helper (lines 166-173)

vars == <<files, cache, cache_age, loads, last_read, load_error, matches,
          deliveries, selected_season, selected_teams, selected_venues,
          filtered_matches, filtered_deliveries, wins_by_team, win_type_counts,
          title_counts, team_stats, team_stats_df, top_wicket_takers,
          toss_advantage, phase_data, phase_stats, pivot_data, heatmap_data,
          team1_select, team2_select, h2h, consistency_stats, exception,
          rate_call>>

---------------------------------------------------------------------------
(* Bounds of the model.                                                    *)

MaxMatches == 3
MaxDeliveries == 2
MaxRuns == 2
MaxBalls == 2
MaxLoads == 3
ClockStep == 2400

---------------------------------------------------------------------------
(* Generic helpers.                                                        *)

Range(s) == {s[i] : i \in DOMAIN s}

RECURSIVE PickFrom(_, _, _)
\* the rows of u whose positions are in I, from position k on, in u's order
PickFrom(u, I, k) ==
    IF k > Len(u) THEN <<>>
    ELSE (IF k \in I THEN <<u[k]>> ELSE <<>>) \o PickFrom(u, I, k + 1)

SubTable(u, I) == PickFrom(u, I, 1)

\* number of rows of table t that satisfy Test
CountRows(t, Test(_)) == Cardinality({i \in DOMAIN t : Test(t[i])})

\* absent value (NaN / None) of a column
NA == "NaN"

---------------------------------------------------------------------------
(* The input data.  Tables are drawn from two fixed listings of rows: the  *)
(* match listing is in the order the load leaves it (line 136: date        *)
(* descending, so newest season and highest id first), the delivery        *)
(* listing in file order (ball by ball).                                   *)

CSK == "Chennai Super Kings"
DC == "Delhi Capitals"
MI == "Mumbai Indians"

\* sorted() of the team names (lines 203, 440): the names that occur in a file
\* of the model, in the order of Python's string comparison
TeamOrder ==
    <<CSK, "Deccan Chargers", DC, "Delhi Daredevils", "Gujarat Lions",
      "Kings XI Punjab", "Kochi Tuskers Kerala", "Kolkata Knight Riders", MI,
      "Pune Warriors", "Rajasthan Royals", "Rising Pune Supergiant",
      "Rising Pune Supergiants", "Royal Challengers Bangalore",
      "Sunrisers Hyderabad", "delhi daredevils">>

\* a match row; the listed matches are numbered in date order, and the date
\* cell of match `id` is written as the day number `id`
Match(id, season, t1, t2, venue, toss, winner, runs, wkts) ==
    [id |-> id, date |-> id, season |-> season, team1 |-> t1, team2 |-> t2,
     venue |-> venue,
     toss_winner |-> toss, winner |-> winner,
     win_by_runs |-> runs, win_by_wickets |-> wkts]

MatchListing ==
    << Match(10, 2017, MI,  DC,  "Wankhede", MI,  MI,  15, 0),
       Match(9,  2017, DC,  MI,  "Kotla",    DC,  MI,  0,  4),
       Match(8,  2017, CSK, MI,  "Chepauk",  MI,  NA,  0,  0),
       Match(6,  2017, MI,  CSK, "Wankhede", CSK, CSK, 0,  3),
       Match(5,  2016, MI,  DC,  "Wankhede", MI,  DC,  0,  7),
       Match(4,  2016, DC,  MI,  "Wankhede", MI,  NA,  0,  0),
       Match(3,  2016, CSK, DC,  "Chepauk",  DC,  CSK, 22, 0),
       Match(1,  2016, DC,  CSK, "Chepauk",  DC,  CSK, 0,  2) >>

Ball(mid, inning, over, ball, bat, bowl, batsman, bowler, br, tr, out, kind) ==
    [match_id |-> mid, inning |-> inning, over |-> over, ball |-> ball,
     batting_team |-> bat, bowling_team |-> bowl, batsman |-> batsman,
     bowler |-> bowler, batsman_runs |-> br,
     total_runs |-> tr, player_dismissed |-> out, dismissal_kind |-> kind]

DeliveryListing ==
    << Ball(1,  1, 1,  1, CSK, DC,  "Dhoni",   "Mishra", 1, 1, NA, NA),
       Ball(3,  1, 6,  1, CSK, DC,  "Raina",   "Mishra", 0, 0, "Raina", "caught"),
       Ball(4,  2, 14, 3, DC,  MI,  "Pant",    "Bumrah", 6, 6, NA, NA),
       Ball(5,  1, 5,  6, MI,  DC,  "Rohit",   "Mishra", 4, 4, NA, NA),
       Ball(5,  1, 6,  1, MI,  DC,  "Rohit",   "Mishra", 0, 0, "Rohit", "caught"),
       Ball(5,  1, 14, 2, MI,  DC,  "Pollard", "Morris", 0, 0, "Pollard", "run out"),
       Ball(5,  1, 15, 1, MI,  DC,  "Hardik",  "Morris", 6, 6, NA, NA),
       Ball(5,  2, 1,  1, DC,  MI,  "Pant",    "Bumrah", 0, 1, NA, NA),
       Ball(5,  2, 20, 4, DC,  MI,  "Pant",    "Bumrah", 0, 0, "Pant", "retired hurt"),
       Ball(6,  1, 15, 1, MI,  CSK, "Rohit",   "Bravo",  0, 0, "Rohit", "lbw"),
       Ball(8,  1, 1,  1, CSK, MI,  "Dhoni",   "Bumrah", 0, 1, NA, NA),
       Ball(9,  1, 1,  1, DC,  MI,  "Pant",    "Bumrah", 0, 0, "Pant", "bowled"),
       Ball(9,  1, 5,  3, DC,  MI,  "Iyer",    "Bumrah", 1, 1, "Pant", "run out"),
       Ball(9,  1, 14, 6, DC,  MI,  "Iyer",    "Hardik", 0, 0, "Iyer", "stumped"),
       Ball(9,  2, 6,  2, MI,  DC,  "Rohit",   "Mishra", 0, 0, "Rohit", "obstructing the field"),
       Ball(9,  2, 15, 4, MI,  DC,  "Hardik",  "Mishra", 0, 0, "Hardik", "hit wicket"),
       Ball(9,  2, 20, 1, MI,  DC,  "Hardik",  "Morris", 0, 0, "Hardik", "caught and bowled"),
       Ball(10, 1, 20, 6, MI,  DC,  "Rohit",   "Morris", 6, 6, NA, NA) >>

\* the match tables the load can return: at most MaxMatches matches of the listing
MatchTables ==
    {SubTable(MatchListing, I) :
        I \in {J \in SUBSET DOMAIN MatchListing : Cardinality(J) <= MaxMatches}}

\* the positions of the listing's deliveries that belong to a match of table m
BallsOf(m) ==
    {k \in DOMAIN DeliveryListing :
        \E i \in DOMAIN m : m[i].id = DeliveryListing[k].match_id}

\* the listed matches with an id in S, in the listing's order
MatchesWithId(S) == SelectSeq(MatchListing, LAMBDA r : r.id \in S)

\* the two matches whose deliveries are listed in detail
DetailedMatches == MatchesWithId({9, 5})

\* the delivery tables that go with match table m: every listed delivery of its
\* matches, or, for the detailed matches, any MaxDeliveries of them
DeliveryTables(m) ==
    {SubTable(DeliveryListing, BallsOf(m))} \cup
    (IF m = DetailedMatches
     THEN {SubTable(DeliveryListing, I) :
              I \in {J \in SUBSET BallsOf(m) : Cardinality(J) <= MaxDeliveries}}
     ELSE {})

---------------------------------------------------------------------------
(* Sidebar (lines 193-217): the options offered by the three multiselects. *)

\* line 194: seasons = sorted(matches['season'].unique(), reverse=True)
seasons(m) == {m[i].season : i \in DOMAIN m}

\* line 203: teams = sorted(matches['team1'].dropna().unique())
teams(m) == SelectSeq(TeamOrder, LAMBDA t : \E i \in DOMAIN m : m[i].team1 = t)

\* line 212: venues = sorted(matches['venue'].dropna().unique())
venues(m) == {m[i].venue : i \in DOMAIN m} \ {NA}

---------------------------------------------------------------------------
(* Filters (lines 226-242).                                                *)

\* FilterSeason without the `if selected_season:` guard
FilterSeasonUnguarded(t, ss) == SelectSeq(t, LAMBDA r : r.season \in ss)

\* lines 228-229
FilterSeason(t, ss) ==
    IF ss # {} THEN SelectSeq(t, LAMBDA r : r.season \in ss) ELSE t

\* FilterTeams with & in place of |
FilterTeamsBoth(t, st) ==
    IF st # {}
    THEN SelectSeq(t, LAMBDA r : r.team1 \in st /\ r.team2 \in st)
    ELSE t

\* lines 231-235
FilterTeams(t, st) ==
    IF st # {}
    THEN SelectSeq(t, LAMBDA r : r.team1 \in st \/ r.team2 \in st)
    ELSE t

\* lines 237-238
FilterVenue(t, sv) ==
    IF sv # {} THEN SelectSeq(t, LAMBDA r : r.venue \in sv) ELSE t

\* FilterMatches with elif in place of the second and third if
FilterMatchesFirstOnly(m, ss, st, sv) ==
    IF ss # {} THEN FilterSeason(m, ss)
    ELSE IF st # {} THEN FilterTeams(m, st)
    ELSE FilterVenue(m, sv)

\* lines 226-238: filtered_matches
FilterMatches(m, ss, st, sv) ==
    FilterVenue(FilterTeams(FilterSeason(m, ss), st), sv)

\* FilterDeliveries without the isin test: filtered_deliveries = deliveries
FilterDeliveriesAll(d, fm) == d

\* lines 241-242: filtered_deliveries
FilterDeliveries(d, fm) ==
    LET filtered_match_ids == {fm[i].id : i \in DOMAIN fm}
    IN  SelectSeq(d, LAMBDA r : r.match_id \in filtered_match_ids)

---------------------------------------------------------------------------
(* Numbers and exceptions.  A Python number is [kind, num, den]: an int n  *)
(* is IntVal(n), the float n/d is Frac(n, d) (exact, rounding is not       *)
(* modelled).  An expression that raises evaluates to Raised(type).        *)

IntVal(n) == [kind |-> "int", num |-> n, den |-> 1]
Frac(n, d) == [kind |-> "float", num |-> n, den |-> d]
Raised(type) == [kind |-> type, num |-> 0, den |-> 1]
Unset == [kind |-> "unset", num |-> 0, den |-> 1]

IsNumber(x) == x.kind \in {"int", "float"}
IsZero(x) == IsNumber(x) /\ x.num = 0

\* a / b on Python ints
TrueDiv(a, b) == IF b = 0 THEN Raised("ZeroDivisionError") ELSE Frac(a, b)

\* x * k for a value x of TrueDiv
Times(x, k) == IF IsNumber(x) THEN Frac(x.num * k, x.den) ELSE x

\* non-negative fractions: x > y
Greater(x, y) == x.num * y.den > y.num * x.den

NoException == [type |-> "none", at |-> "none"]

\* the modelled steps of the script, in source order
StepOrder == <<"load", "sidebar", "filter", "wins_by_team", "win_types",
               "titles", "team_stats", "wicket_takers", "toss_advantage",
               "phase", "head_to_head", "compare", "consistency">>

StepIndex(step) == CHOOSE i \in DOMAIN StepOrder : StepOrder[i] = step

\* step ran to its end in a script run that ended with exception e
Completed(step, e) ==
    IF e.at = "none" THEN TRUE ELSE StepIndex(e.at) > StepIndex(step)

---------------------------------------------------------------------------
(* Helper functions (lines 162-173).                                       *)

\* get_valid_dismissals with 'run out' in the list
ValidDismissalsWithRunOut ==
    {"caught", "bowled", "lbw", "caught and bowled", "stumped", "hit wicket",
     "run out"}

\* lines 162-164
get_valid_dismissals ==
    {"caught", "bowled", "lbw", "caught and bowled", "stumped", "hit wicket"}

\* calculate_strike_rate without the `if balls > 0` guard
StrikeRateUnguarded(runs, balls) == Times(TrueDiv(runs, balls), 100)

\* lines 166-168: (runs / balls * 100) if balls > 0 else 0
calculate_strike_rate(runs, balls) ==
    IF balls > 0 THEN Times(TrueDiv(runs, balls), 100) ELSE IntVal(0)

\* lines 170-173: overs = balls / 6; (runs / overs) if overs > 0 else 0
calculate_economy(runs, balls) ==
    LET overs == Frac(balls, 6)
    IN  IF overs.num > 0 THEN Frac(runs * overs.den, overs.num) ELSE IntVal(0)

---------------------------------------------------------------------------
(* Sorting and counting as pandas does them.                               *)

\* sort_values(ascending=False): the rows of s by descending key, key[i] being
\* the (fraction) key of row i; rows of equal key keep their order
SortDescending(s, key) ==
    LET Position(i) ==
            1 + Cardinality({j \in DOMAIN s :
                    \/ Greater(key[j], key[i])
                    \/ (~Greater(key[i], key[j]) /\ j < i)})
    IN  [p \in DOMAIN s |-> s[CHOOSE i \in DOMAIN s : Position(i) = p]]

RECURSIVE Unique(_)
\* Series.unique(): the values of s in order of first appearance
Unique(s) ==
    IF s = <<>> THEN <<>>
    ELSE LET n == Len(s)
             u == Unique(SubSeq(s, 1, n - 1))
         IN  IF s[n] \in Range(u) THEN u ELSE Append(u, s[n])

\* Series.value_counts(): one row per value (absent values dropped), most
\* frequent first
value_counts(s) ==
    LET present == SelectSeq(Unique(s), LAMBDA v : v # NA)
        rows == [i \in DOMAIN present |->
                    [value |-> present[i],
                     count |-> Cardinality({k \in DOMAIN s : s[k] = present[i]})]]
    IN  SortDescending(rows, [i \in DOMAIN rows |-> IntVal(rows[i].count)])

\* DataFrame.head(n)
head(t, n) == IF Len(t) <= n THEN t ELSE SubSeq(t, 1, n)

RECURSIVE Ascending(_)
\* the sorted group keys of a groupby: the numbers of S in ascending order
Ascending(S) ==
    IF S = {} THEN <<>>
    ELSE LET least == CHOOSE x \in S : \A y \in S : x <= y
         IN  <<least>> \o Ascending(S \ {least})

RECURSIVE SumOf(_)
\* Series.sum() of a column of ints
SumOf(s) == IF s = <<>> THEN 0 ELSE Head(s) + SumOf(Tail(s))

---------------------------------------------------------------------------
(* The data loader (lines 103-146).  A file of the storage is [exists,     *)
(* rows]; a table read from it is its rows, a row holding the columns of   *)
(* the file's header.  A table without rows has every column.              *)

MatchColumns ==
    {"id", "date", "season", "team1", "team2", "venue", "toss_winner", "winner",
     "win_by_runs", "win_by_wickets"}

DeliveryColumns ==
    {"match_id", "inning", "over", "ball", "batting_team", "bowling_team",
     "batsman", "bowler", "batsman_runs", "total_runs", "player_dismissed",
     "dismissal_kind"}

\* DataFrame.columns
Columns(t, header) == IF t = <<>> THEN header ELSE DOMAIN t[1]

File(rows) == [exists |-> TRUE, rows |-> rows]
NoFile == [exists |-> FALSE, rows |-> <<>>]

\* the storage holding the match table m and the delivery table d
StoredFiles(m, d) == [matches |-> File(m), deliveries |-> File(d)]

\* lines 116-119: team_mapping
team_mapping ==
    [k \in {"Rising Pune Supergiant", "Delhi Daredevils"} |->
        IF k = "Rising Pune Supergiant" THEN "Rising Pune Supergiants"
        ELSE "Delhi Capitals"]

\* the match columns mapped, with 'winner' and 'toss_winner' left out
TeamColumnsWithoutWinner == {"team1", "team2"}

\* line 122: the match columns the mapping is applied to
MatchTeamColumns == {"team1", "team2", "winner", "toss_winner"}

\* line 127: the delivery columns the mapping is applied to
DeliveryTeamColumns == {"batting_team", "bowling_team"}

\* Series.replace(team_mapping) on one cell: a cell equal to a key becomes the
\* key's value, any other cell is kept
replace(v) == IF v \in DOMAIN team_mapping THEN team_mapping[v] ELSE v

\* lines 122-129: the mapping applied to each column of cols that the table has
ReplaceColumns(t, cols) ==
    [i \in DOMAIN t |->
        [c \in DOMAIN t[i] |-> IF c \in cols THEN replace(t[i][c]) ELSE t[i][c]]]

\* a date cell that does not parse, and the null date it is coerced to
NaT == 0

\* line 133: pd.to_datetime(errors='coerce') on one cell
to_datetime(x) == IF x > 0 THEN x ELSE NaT

\* lines 132-133: the date column parsed
ParseDates(t) ==
    [i \in DOMAIN t |->
        [c \in DOMAIN t[i] |->
            IF c = "date" THEN to_datetime(t[i][c]) ELSE t[i][c]]]

\* line 136: sort_values('date', ascending=False), null dates last
SortByDate(t) == SortDescending(t, [i \in DOMAIN t |-> IntVal(t[i].date)])

\* the except branch returning the tables it has, without st.stop()
LoadFailedContinues(type, m, d) ==
    [error |-> type, stopped |-> FALSE, matches |-> m, deliveries |-> d]

\* lines 140-146: the except branches: st.error(...) and st.stop()
LoadFailed(type, m, d) ==
    [error |-> type, stopped |-> TRUE, matches |-> <<>>, deliveries |-> <<>>]

LoadReturned(m, d) ==
    [error |-> "none", stopped |-> FALSE, matches |-> m, deliveries |-> d]

\* lines 120-138 on the two tables read
Preprocess(m, d) ==
    IF "date" \in Columns(m, MatchColumns)
    THEN LoadReturned(SortByDate(ParseDates(m)), d)
    ELSE LoadFailed("KeyError", m, d)

\* lines 111-146: the body of load_data on the storage f
ReadFiles(f) ==
    IF f.matches.exists /\ f.deliveries.exists
    THEN Preprocess(ReplaceColumns(f.matches.rows, MatchTeamColumns),
                    ReplaceColumns(f.deliveries.rows, DeliveryTeamColumns))
    ELSE LoadFailed("FileNotFoundError", <<>>, <<>>)

\* line 103: ttl=3600, in seconds
ttl == 3600

EmptyCache == [valid |-> FALSE, matches |-> <<>>, deliveries |-> <<>>]

\* load_data without the cache decorator
CacheNeverHit(c, age) == FALSE

\* line 103: the cached value is returned while it is younger than ttl
CacheHit(c, age) == c.valid /\ age < ttl

\* the outcome of a call that executed the body with outcome `out`: what is
\* returned, and what the cache holds afterwards
Executed(out) ==
    [read |-> TRUE, error |-> out.error, stopped |-> out.stopped,
     matches |-> out.matches, deliveries |-> out.deliveries,
     cache |-> IF out.error = "none"
               THEN [valid |-> TRUE, matches |-> out.matches,
                     deliveries |-> out.deliveries]
               ELSE EmptyCache]

\* lines 103-104, 179: one call of load_data() with cache c of age `age`
load_data(c, age, f) ==
    IF CacheHit(c, age)
    THEN [read |-> FALSE, error |-> "none", stopped |-> FALSE,
          matches |-> c.matches, deliveries |-> c.deliveries, cache |-> c]
    ELSE Executed(ReadFiles(f))

---------------------------------------------------------------------------
(* Aggregations, in source order.                                          *)

TopN == 10
MinMatches == 10

\* wins_by_team sorted by ascending count
WinsByTeamAscending(fm) ==
    LET counts == value_counts([i \in DOMAIN fm |-> fm[i].winner])
    IN  head([i \in DOMAIN counts |-> counts[Len(counts) + 1 - i]], TopN)

\* lines 338-340: wins_by_team
WinsByTeam(fm) == head(value_counts([i \in DOMAIN fm |-> fm[i].winner]), TopN)

\* lines 386-390: the result type of one match
win_type(x) ==
    IF x.win_by_runs > 0 THEN "Won Batting First"
    ELSE IF x.win_by_wickets > 0 THEN "Won Chasing" ELSE "Tie/No Result"

\* lines 386-392: win_type_counts of a non-empty frame
WinTypeCounts(fm) == value_counts([i \in DOMAIN fm |-> win_type(fm[i])])

\* lines 386-392 on an empty frame: apply(axis=1) returns the empty frame itself,
\* its value_counts().reset_index() has one column more than the frame, and
\* naming two columns raises
WinTypesRaises(fm) == fm = <<>>

\* line 417: the rows of groupby(['season', 'winner']).size() for season s: one
\* per winner of the season, in the sorted order of the winners; a match with
\* an absent winner is in no group
SizesOfSeason(fm, s) ==
    LET Wins(t) == Cardinality({i \in DOMAIN fm :
                                   fm[i].season = s /\ fm[i].winner = t})
    IN  SelectSeq([k \in DOMAIN TeamOrder |->
                      [season |-> s, winner |-> TeamOrder[k],
                       wins |-> Wins(TeamOrder[k])]],
                  LAMBDA r : r.wins > 0)

\* idxmax taking the last of the rows with the most wins
IdxMaxLast(rows) ==
    CHOOSE i \in DOMAIN rows :
        /\ \A j \in DOMAIN rows : rows[j].wins <= rows[i].wins
        /\ \A j \in DOMAIN rows : j > i => rows[j].wins < rows[i].wins

\* line 418: idxmax(): the first of the rows with the most wins
IdxMax(rows) ==
    CHOOSE i \in DOMAIN rows :
        /\ \A j \in DOMAIN rows : rows[j].wins <= rows[i].wins
        /\ \A j \in DOMAIN rows : j < i => rows[j].wins < rows[i].wins

RECURSIVE SeasonWinnersFrom(_, _)
\* lines 417-418: season_winners, one row per season of `ss` that has a group
SeasonWinnersFrom(ss, fm) ==
    IF ss = <<>> THEN <<>>
    ELSE LET rows == SizesOfSeason(fm, Head(ss))
         IN  (IF rows # <<>> THEN <<rows[IdxMax(rows)]>> ELSE <<>>)
             \o SeasonWinnersFrom(Tail(ss), fm)

\* lines 417-418: season_winners
SeasonWinners(fm) == SeasonWinnersFrom(Ascending(seasons(fm)), fm)

\* lines 419-420: title_counts
TitleCounts(fm) ==
    LET season_winners == SeasonWinners(fm)
    IN  value_counts([i \in DOMAIN season_winners |-> season_winners[i].winner])

\* the matches of `team` with the team2 test left out
MatchesOfTeam1Only(fm, team) == SelectSeq(fm, LAMBDA r : r.team1 = team)

\* lines 441-445: the matches of `team` and its wins
MatchesOf(fm, team) == SelectSeq(fm, LAMBDA r : r.team1 = team \/ r.team2 = team)
WinsOf(fm, team) == Len(SelectSeq(fm, LAMBDA r : r.winner = team))

RECURSIVE TeamStatsFrom(_, _)
\* lines 439-448: the loop over teams, from the sequence `ts` of teams left
TeamStatsFrom(ts, fm) ==
    IF ts = <<>> THEN <<>>
    ELSE LET team == Head(ts)
             wins == WinsOf(fm, team)
             total == Len(MatchesOf(fm, team))
         IN  (IF total > 0
              THEN <<[Team |-> team, WinPct |-> Times(TrueDiv(wins, total), 100),
                      Matches |-> total]>>
              ELSE <<>>) \o TeamStatsFrom(Tail(ts), fm)

\* lines 439-448: team_stats
TeamStats(m, fm) == TeamStatsFrom(teams(m), fm)

\* lines 450, 971: pd.DataFrame(rows).sort_values('Win %', ascending=False).head(10);
\* a frame built from no rows has no 'Win %' column and sort_values raises KeyError
SortByWinPctRaises(rows) == rows = <<>>

SortByWinPct(rows) ==
    head(SortDescending(rows, [i \in DOMAIN rows |-> rows[i].WinPct]), TopN)

\* lines 501-506: top_wicket_takers
TopWicketTakers(fd) ==
    LET valid_dismissals == get_valid_dismissals
        wicket_takers ==
            SelectSeq(fd, LAMBDA r : r.dismissal_kind \in valid_dismissals)
    IN  head(value_counts([i \in DOMAIN wicket_takers |->
                              wicket_takers[i].bowler]), TopN)

\* lines 719-722: toss_advantage
TossAdvantage(fm) ==
    LET toss_win_matches ==
            SelectSeq(fm, LAMBDA r : r.winner # NA /\ r.toss_winner = r.winner)
    IN  IF Len(fm) > 0
        THEN Times(TrueDiv(Len(toss_win_matches), Len(fm)), 100)
        ELSE IntVal(0)

\* the phase of an over with <= in place of <
PhaseInclusive(x) ==
    IF x <= 6 THEN "Powerplay (1-6)"
    ELSE IF x <= 15 THEN "Middle (7-15)" ELSE "Death (16-20)"

\* lines 805-808: the phase of an over
Phase(x) ==
    IF x < 6 THEN "Powerplay (1-6)"
    ELSE IF x < 15 THEN "Middle (7-15)" ELSE "Death (16-20)"

\* a frame with the Phase column set on every row
WithPhase(t) ==
    [i \in DOMAIN t |->
        [c \in DOMAIN t[i] \cup {"Phase"} |->
            IF c = "Phase" THEN Phase(t[i].over) ELSE t[i][c]]]

\* lines 804-808: phase_data, a copy of filtered_deliveries with the Phase column
PhaseData(fd) == WithPhase(fd)

\* the group keys of groupby('Phase') in sorted order
PhaseOrder == <<"Death (16-20)", "Middle (7-15)", "Powerplay (1-6)">>

\* lines 810-814: phase_stats, one row per phase that occurs: the sum of
\* total_runs, the number of present player_dismissed, the number of balls
PhaseStats(pd) ==
    LET Of(p) == SelectSeq(pd, LAMBDA r : r.Phase = p)
        Row(p) ==
            [Phase |-> p,
             total_runs |-> SumOf([i \in DOMAIN Of(p) |-> Of(p)[i].total_runs]),
             player_dismissed |->
                 Len(SelectSeq(Of(p), LAMBDA r : r.player_dismissed # NA)),
             ball |-> Len(Of(p))]
    IN  SelectSeq([k \in DOMAIN PhaseOrder |-> Row(PhaseOrder[k])],
                  LAMBDA r : r.ball > 0)

RECURSIVE PivotFrom(_)
\* lines 863-869: pivot_data, one (Winner, Loser) row per match with a winner
PivotFrom(fm) ==
    IF fm = <<>> THEN <<>>
    ELSE LET row == Head(fm)
             winner == row.winner
             loser == IF row.team1 = winner THEN row.team2 ELSE row.team1
         IN  (IF winner # NA /\ loser # NA
              THEN <<[Winner |-> winner, Loser |-> loser]>>
              ELSE <<>>) \o PivotFrom(Tail(fm))

\* pivot_data without the `if pd.notna(winner)` test of line 866
PivotDataEveryMatch(fm) ==
    [i \in DOMAIN fm |->
        [Winner |-> fm[i].winner,
         Loser |-> IF fm[i].team1 = fm[i].winner THEN fm[i].team2
                   ELSE fm[i].team1]]

\* lines 863-869: pivot_data
PivotData(fm) == PivotFrom(fm)

\* line 873: pd.crosstab(Winner, Loser): a count for every pair of a winner
\* and a loser that occur
crosstab(pivot) ==
    [c \in {pivot[i].Winner : i \in DOMAIN pivot}
           \X {pivot[i].Loser : i \in DOMAIN pivot} |->
        Cardinality({i \in DOMAIN pivot :
                        pivot[i].Winner = c[1] /\ pivot[i].Loser = c[2]})]

\* lines 871-873: heatmap_data, built only from a non-empty pivot_data
HeatmapData(pivot) == IF pivot # <<>> THEN crosstab(pivot) ELSE <<>>

NoComparison ==
    [shown |-> FALSE, team1_wins |-> 0, team2_wins |-> 0, total_h2h |-> 0]

\* HeadToHead without the second alternative of lines 908-909
HeadToHeadOneWay(fm, team1, team2) ==
    IF team1 # NA /\ team2 # NA /\ team1 # team2
    THEN LET h2h_matches ==
                 SelectSeq(fm, LAMBDA r : r.team1 = team1 /\ r.team2 = team2)
         IN  [shown |-> TRUE,
              team1_wins |-> Len(SelectSeq(h2h_matches,
                                           LAMBDA r : r.winner = team1)),
              team2_wins |-> Len(SelectSeq(h2h_matches,
                                           LAMBDA r : r.winner = team2)),
              total_h2h |-> Len(h2h_matches)]
    ELSE NoComparison

\* lines 905-914: the comparison of the two selected teams
HeadToHead(fm, team1, team2) ==
    IF team1 # NA /\ team2 # NA /\ team1 # team2
    THEN LET h2h_matches ==
                 SelectSeq(fm, LAMBDA r :
                     \/ (r.team1 = team1 /\ r.team2 = team2)
                     \/ (r.team1 = team2 /\ r.team2 = team1))
         IN  [shown |-> TRUE,
              team1_wins |-> Len(SelectSeq(h2h_matches,
                                           LAMBDA r : r.winner = team1)),
              team2_wins |-> Len(SelectSeq(h2h_matches,
                                           LAMBDA r : r.winner = team2)),
              total_h2h |-> Len(h2h_matches)]
    ELSE NoComparison

\* lines 900-903: the values the two selectboxes start with
DefaultTeam1(ts) == IF ts = <<>> THEN NA ELSE ts[1]
DefaultTeam2(ts) == IF Len(ts) > 1 THEN ts[2] ELSE DefaultTeam1(ts)

RECURSIVE ConsistencyFrom(_, _)
\* lines 955-969: the loop over teams, from the sequence `ts` of teams left
ConsistencyFrom(ts, fm) ==
    IF ts = <<>> THEN <<>>
    ELSE LET team == Head(ts)
             team_matches == MatchesOf(fm, team)
             wins == WinsOf(fm, team)
             total == Len(team_matches)
         IN  (IF Len(team_matches) >= MinMatches
              THEN <<[Team |-> team, WinPct |-> Times(TrueDiv(wins, total), 100),
                      Matches |-> total, Wins |-> wins]>>
              ELSE <<>>) \o ConsistencyFrom(Tail(ts), fm)

\* lines 955-969: consistency_stats
ConsistencyStats(m, fm) == ConsistencyFrom(teams(m), fm)

---------------------------------------------------------------------------
(* One execution of the script (lines 179-1068): the loaded tables, the    *)
(* selections of the widgets and the value every modelled name is bound to *)
(* when the run ends.  A step after the raising one leaves its names       *)
(* empty.                                                                  *)

Raise(type, step) == [type |-> type, at |-> step]

\* the Phase column assigned on the frame bound to `deliveries`
DeliveriesPhaseInPlace(d) == WithPhase(d)

\* lines 804-805: the Phase column is assigned on phase_data, a copy of the
\* filtered frame, so the frame bound to `deliveries` keeps its rows and columns
DeliveriesAfterPhase(d) == d

\* line 226: the filters select from matches.copy(); `matches` keeps its rows
MatchesAfterFilter(m) == m

\* lines 194, 203, 212: the match columns the sidebar reads
SidebarColumns == {"season", "team1", "venue"}

\* the exception that ends the run, if any: the first raising step in source
\* order (st.stop() in load_data, a column that is not there at lines 194-212
\* or 241-242, line 392 on an empty frame, line 450 or 971 on no rows)
FirstException(ld, fm, ts, cs) ==
    IF ld.stopped THEN Raise("StopException", "load")
    ELSE IF ~(SidebarColumns \subseteq Columns(ld.matches, MatchColumns))
    THEN Raise("KeyError", "sidebar")
    ELSE IF \/ "id" \notin Columns(ld.matches, MatchColumns)
            \/ "match_id" \notin Columns(ld.deliveries, DeliveryColumns)
    THEN Raise("KeyError", "filter")
    ELSE IF WinTypesRaises(fm) THEN Raise("ValueError", "win_types")
    ELSE IF SortByWinPctRaises(ts) THEN Raise("KeyError", "team_stats")
    ELSE IF SortByWinPctRaises(cs) THEN Raise("KeyError", "consistency")
    ELSE NoException

\* the names bound by a run that loaded ld, took the selections sel, filtered
\* to fm, fd, built the rows ts (line 448) and cs (line 969) and ended with
\* exception e
ScriptResult(ld, sel, fm, fd, ts, cs, pv, e) ==
    [cache |-> ld.cache,
     read |-> ld.read,
     load_error |-> ld.error,
     matches |-> IF Completed("load", e) THEN MatchesAfterFilter(ld.matches)
                 ELSE <<>>,
     deliveries |->
         IF Completed("phase", e) THEN DeliveriesAfterPhase(ld.deliveries)
         ELSE IF Completed("load", e) THEN ld.deliveries ELSE <<>>,
     selected_season |-> IF Completed("sidebar", e) THEN sel.season ELSE {},
     selected_teams |-> IF Completed("sidebar", e) THEN sel.teams ELSE {},
     selected_venues |-> IF Completed("sidebar", e) THEN sel.venues ELSE {},
     filtered_matches |-> IF Completed("filter", e) THEN fm ELSE <<>>,
     filtered_deliveries |-> IF Completed("filter", e) THEN fd ELSE <<>>,
     wins_by_team |->
         IF Completed("wins_by_team", e) THEN WinsByTeam(fm) ELSE <<>>,
     win_type_counts |->
         IF Completed("win_types", e) THEN WinTypeCounts(fm) ELSE <<>>,
     title_counts |-> IF Completed("titles", e) THEN TitleCounts(fm) ELSE <<>>,
     team_stats |-> IF Completed("titles", e) THEN ts ELSE <<>>,
     team_stats_df |->
         IF Completed("team_stats", e) THEN SortByWinPct(ts) ELSE <<>>,
     top_wicket_takers |->
         IF Completed("wicket_takers", e) THEN TopWicketTakers(fd) ELSE <<>>,
     toss_advantage |->
         IF Completed("toss_advantage", e) THEN TossAdvantage(fm) ELSE Unset,
     phase_data |-> IF Completed("phase", e) THEN PhaseData(fd) ELSE <<>>,
     phase_stats |->
         IF Completed("phase", e) THEN PhaseStats(PhaseData(fd)) ELSE <<>>,
     pivot_data |-> IF Completed("head_to_head", e) THEN pv ELSE <<>>,
     heatmap_data |->
         IF Completed("head_to_head", e) THEN HeatmapData(pv) ELSE <<>>,
     team1_select |-> IF Completed("head_to_head", e) THEN sel.team1 ELSE NA,
     team2_select |-> IF Completed("head_to_head", e) THEN sel.team2 ELSE NA,
     h2h |-> IF Completed("compare", e)
             THEN HeadToHead(fm, sel.team1, sel.team2) ELSE NoComparison,
     consistency_stats |-> IF Completed("compare", e) THEN cs ELSE <<>>,
     exception |-> e]

ScriptSteps(ld, sel, fm, fd, ts, cs) ==
    ScriptResult(ld, sel, fm, fd, ts, cs, PivotData(fm),
                 FirstException(ld, fm, ts, cs))

ScriptOn(ld, sel, fm) ==
    ScriptSteps(ld, sel, fm, FilterDeliveries(ld.deliveries, fm),
                TeamStats(ld.matches, fm), ConsistencyStats(ld.matches, fm))

ScriptSelected(ld, sel) ==
    ScriptOn(ld, sel, FilterMatches(ld.matches, sel.season, sel.teams, sel.venues))

DefaultSeasonCount == 5

\* line 198: default=seasons[:5] if len(seasons) >= 5 else seasons
DefaultSeasons(m) ==
    LET all == seasons(m)
    IN  IF Cardinality(all) >= DefaultSeasonCount
        THEN {s \in all : Cardinality({t \in all : t > s}) < DefaultSeasonCount}
        ELSE all

\* line 207: default=teams
DefaultTeams(m) == Range(teams(m))

\* the widgets of the previous run: whether the sidebar (lines 195-217) and the
\* two selectboxes (lines 900-903) were drawn, and the options they offered
NoWidgets ==
    [sidebar |-> FALSE, compare |-> FALSE, seasons |-> {}, teams |-> <<>>,
     venues |-> {}]

\* lines 195-217, 900-903: the value each widget returns.  A widget keeps the
\* value the user gave it while it is drawn in every run with the same options;
\* a widget that is new, or whose options changed, returns its default
Selections(m, prev, req) ==
    [season |-> IF prev.sidebar /\ prev.seasons = seasons(m)
                THEN req.season ELSE DefaultSeasons(m),
     teams |-> IF prev.sidebar /\ prev.teams = teams(m)
               THEN req.teams ELSE DefaultTeams(m),
     venues |-> IF prev.sidebar /\ prev.venues = venues(m)
                THEN req.venues ELSE {},
     team1 |-> IF prev.compare /\ prev.teams = teams(m)
               THEN req.team1 ELSE DefaultTeam1(teams(m)),
     team2 |-> IF prev.compare /\ prev.teams = teams(m)
               THEN req.team2 ELSE DefaultTeam2(teams(m))]

\* lines 179-971 after load_data() returned ld
Script(ld, prev, req) == ScriptSelected(ld, Selections(ld.matches, prev, req))

NoRequest ==
    [season |-> {}, teams |-> {}, venues |-> {}, team1 |-> NA, team2 |-> NA]

NoRateCall == [fn |-> "none", runs |-> 0, balls |-> 0, result |-> Unset]

\* the state after the first execution of the script in a process that found
\* the files f: nothing is cached, no widget has a value yet
InitFrom(f) ==
    \E run \in {Script(load_data(EmptyCache, 0, f), NoWidgets, NoRequest)} :
        /\ files = f
        /\ cache = run.cache
        /\ cache_age = 0
        /\ loads = 1
        /\ last_read = [files |-> f, error |-> run.load_error]
        /\ load_error = run.load_error
        /\ matches = run.matches
        /\ deliveries = run.deliveries
        /\ selected_season = run.selected_season
        /\ selected_teams = run.selected_teams
        /\ selected_venues = run.selected_venues
        /\ filtered_matches = run.filtered_matches
        /\ filtered_deliveries = run.filtered_deliveries
        /\ wins_by_team = run.wins_by_team
        /\ win_type_counts = run.win_type_counts
        /\ title_counts = run.title_counts
        /\ team_stats = run.team_stats
        /\ team_stats_df = run.team_stats_df
        /\ top_wicket_takers = run.top_wicket_takers
        /\ toss_advantage = run.toss_advantage
        /\ phase_data = run.phase_data
        /\ phase_stats = run.phase_stats
        /\ pivot_data = run.pivot_data
        /\ heatmap_data = run.heatmap_data
        /\ team1_select = run.team1_select
        /\ team2_select = run.team2_select
        /\ h2h = run.h2h
        /\ consistency_stats = run.consistency_stats
        /\ exception = run.exception
        /\ rate_call = NoRateCall

\* the files hold a match table and a delivery table of the listings
Init ==
    \E m \in MatchTables : \E d \in DeliveryTables(m) : InitFrom(StoredFiles(m, d))

\* the widgets drawn by the last run
PrevWidgets ==
    IF Completed("sidebar", exception)
    THEN [sidebar |-> TRUE, compare |-> Completed("head_to_head", exception),
          seasons |-> seasons(matches), teams |-> teams(matches),
          venues |-> venues(matches)]
    ELSE NoWidgets

\* the values the widgets hold
CurrentRequest ==
    [season |-> selected_season, teams |-> selected_teams,
     venues |-> selected_venues, team1 |-> team1_select, team2 |-> team2_select]

\* the variables a run binds, from the record `run` of its results
Rebind(run) ==
    /\ cache' = run.cache
    /\ cache_age' = IF run.read THEN 0 ELSE cache_age
    /\ loads' = IF run.read THEN loads + 1 ELSE loads
    /\ last_read' = IF run.read THEN [files |-> files, error |-> run.load_error]
                    ELSE last_read
    /\ load_error' = run.load_error
    /\ matches' = run.matches
    /\ deliveries' = run.deliveries
    /\ selected_season' = run.selected_season
    /\ selected_teams' = run.selected_teams
    /\ selected_venues' = run.selected_venues
    /\ filtered_matches' = run.filtered_matches
    /\ filtered_deliveries' = run.filtered_deliveries
    /\ wins_by_team' = run.wins_by_team
    /\ win_type_counts' = run.win_type_counts
    /\ title_counts' = run.title_counts
    /\ team_stats' = run.team_stats
    /\ team_stats_df' = run.team_stats_df
    /\ top_wicket_takers' = run.top_wicket_takers
    /\ toss_advantage' = run.toss_advantage
    /\ phase_data' = run.phase_data
    /\ phase_stats' = run.phase_stats
    /\ pivot_data' = run.pivot_data
    /\ heatmap_data' = run.heatmap_data
    /\ team1_select' = run.team1_select
    /\ team2_select' = run.team2_select
    /\ h2h' = run.h2h
    /\ consistency_stats' = run.consistency_stats
    /\ exception' = run.exception
    /\ UNCHANGED <<files, rate_call>>

\* RunScript with line 226 selecting from the previous run's filtered_matches
RunScriptIncremental(req) ==
    /\ IF CacheHit(cache, cache_age) THEN TRUE ELSE loads < MaxLoads
    /\ \E ld \in {load_data(cache, cache_age, files)} :
       \E sel \in {Selections(ld.matches, PrevWidgets, req)} :
       \E run \in {ScriptOn(ld, sel,
                       FilterMatches(filtered_matches, sel.season, sel.teams,
                                     sel.venues))} :
           Rebind(run)

\* the script is executed again, top to bottom, with the widgets holding req;
\* line 179 binds `matches` and `deliveries` to what load_data() returns, a
\* fresh copy of the cached tables or the tables it reads from the files
RunScript(req) ==
    /\ IF CacheHit(cache, cache_age) THEN TRUE ELSE loads < MaxLoads
    /\ \E run \in {Script(load_data(cache, cache_age, files), PrevWidgets, req)} :
           Rebind(run)

Toggle(sel, x) == IF x \in sel THEN sel \ {x} ELSE sel \cup {x}

\* the user adds or removes one season in the season multiselect (line 195)
ChangeSeason ==
    /\ Completed("sidebar", exception)
    /\ \E s \in seasons(matches) :
           RunScript([CurrentRequest EXCEPT !.season = Toggle(selected_season, s)])

\* the user adds or removes one team in the team multiselect (line 204)
ChangeTeams ==
    /\ Completed("sidebar", exception)
    /\ \E t \in Range(teams(matches)) :
           RunScript([CurrentRequest EXCEPT !.teams = Toggle(selected_teams, t)])

\* the user adds or removes one venue in the venue multiselect (line 213)
ChangeVenues ==
    /\ Completed("sidebar", exception)
    /\ \E v \in venues(matches) :
           RunScript([CurrentRequest EXCEPT !.venues = Toggle(selected_venues, v)])

Next == ChangeSeason \/ ChangeTeams \/ ChangeVenues

Spec == Init /\ [][Next]_vars

---------------------------------------------------------------------------
(* The rate helpers called directly (lines 166-173) on runs and balls      *)
(* drawn from 0..MaxRuns and 0..MaxBalls.                                  *)

CallStrikeRate ==
    \E runs \in 0..MaxRuns, balls \in 0..MaxBalls :
        /\ rate_call' = [fn |-> "calculate_strike_rate", runs |-> runs,
                         balls |-> balls,
                         result |-> calculate_strike_rate(runs, balls)]
        /\ UNCHANGED <<files, cache, cache_age, loads, last_read, load_error,
                       matches, deliveries, selected_season, selected_teams,
                       selected_venues, filtered_matches, filtered_deliveries,
                       wins_by_team, win_type_counts, title_counts, team_stats,
                       team_stats_df, top_wicket_takers, toss_advantage,
                       phase_data, phase_stats, pivot_data, heatmap_data,
                       team1_select, team2_select, h2h, consistency_stats,
                       exception>>

CallEconomy ==
    \E runs \in 0..MaxRuns, balls \in 0..MaxBalls :
        /\ rate_call' = [fn |-> "calculate_economy", runs |-> runs,
                         balls |-> balls,
                         result |-> calculate_economy(runs, balls)]
        /\ UNCHANGED <<files, cache, cache_age, loads, last_read, load_error,
                       matches, deliveries, selected_season, selected_teams,
                       selected_venues, filtered_matches, filtered_deliveries,
                       wins_by_team, win_type_counts, title_counts, team_stats,
                       team_stats_df, top_wicket_takers, toss_advantage,
                       phase_data, phase_stats, pivot_data, heatmap_data,
                       team1_select, team2_select, h2h, consistency_stats,
                       exception>>

\* the match tables of the rate specification: of matches 10, 6 and 3
RateMatchTables ==
    {MatchesWithId(I) :
        I \in {J \in SUBSET {10, 6, 3} : Cardinality(J) <= MaxMatches}}

InitRates == Init /\ cache.matches \in RateMatchTables

NextRates == Next \/ CallStrikeRate \/ CallEconomy

SpecRates == InitRates /\ [][NextRates]_vars

---------------------------------------------------------------------------
(* The two-team comparison (lines 896-914) with the user choosing the two  *)
(* teams.                                                                  *)

\* the user picks another team in the selectbox "Select Team 1" (line 900)
ChangeTeam1 ==
    /\ Completed("head_to_head", exception)
    /\ \E t \in Range(teams(matches)) \ {team1_select} :
           RunScript([CurrentRequest EXCEPT !.team1 = t])

\* the user picks another team in the selectbox "Select Team 2" (line 903)
ChangeTeam2 ==
    /\ Completed("head_to_head", exception)
    /\ \E t \in Range(teams(matches)) \ {team2_select} :
           RunScript([CurrentRequest EXCEPT !.team2 = t])

\* the match tables of the comparison specification: of matches 10, 9, 8, 6, 4
CompareMatchTables ==
    {MatchesWithId(I) :
        I \in {J \in SUBSET {10, 9, 8, 6, 4} : Cardinality(J) <= MaxMatches}}

InitCompare == Init /\ cache.matches \in CompareMatchTables

NextCompare == Next \/ ChangeTeam1 \/ ChangeTeam2

SpecCompare == InitCompare /\ [][NextCompare]_vars

---------------------------------------------------------------------------
(* A league of twelve teams: tables long enough for the lists of ten       *)
(* (lines 340, 450) to cut and for the threshold of ten matches (line 960) *)
(* to be met.                                                              *)

LeagueListing ==
    << Match(112, 2017, MI,  CSK, "Wankhede", MI,  MI, 10, 0),
       Match(111, 2017, CSK, MI,  "Eden Gardens", CSK, MI, 0, 5),
       Match(110, 2017, MI, "Deccan Chargers", "Wankhede", MI,
             "Deccan Chargers", 0, 1),
       Match(109, 2017, MI, DC, "Wankhede", DC, DC, 3, 0),
       Match(108, 2017, MI, "Gujarat Lions", "Eden Gardens", MI,
             "Gujarat Lions", 0, 6),
       Match(107, 2017, MI, "Kings XI Punjab", "Wankhede", MI,
             "Kings XI Punjab", 7, 0),
       Match(106, 2016, MI, "Kochi Tuskers Kerala", "Wankhede", MI,
             "Kochi Tuskers Kerala", 0, 2),
       Match(105, 2016, MI, "Kolkata Knight Riders", "Eden Gardens",
             "Kolkata Knight Riders", "Kolkata Knight Riders", 1, 0),
       Match(104, 2016, MI, "Pune Warriors", "Wankhede", MI,
             "Pune Warriors", 0, 8),
       Match(103, 2016, MI, "Rajasthan Royals", "Wankhede", MI,
             "Rajasthan Royals", 12, 0),
       Match(102, 2016, MI, "Royal Challengers Bangalore", "Wankhede", MI,
             "Royal Challengers Bangalore", 0, 4),
       Match(101, 2016, MI, "Sunrisers Hyderabad", "Eden Gardens", MI,
             "Sunrisers Hyderabad", 2, 0) >>

LeagueDeliveryListing ==
    << Ball(101, 1, 1,  1, MI,  "Sunrisers Hyderabad", "Rohit", "Rashid",
            4, 4, NA, NA),
       Ball(112, 2, 19, 6, CSK, MI, "Dhoni", "Bumrah", 0, 0, "Dhoni", "bowled") >>

\* the league's match table, whole or with one match left out
LeagueTables ==
    {LeagueListing} \cup
    {SubTable(LeagueListing, DOMAIN LeagueListing \ {k}) :
        k \in DOMAIN LeagueListing}

\* the deliveries listed for the matches of table m
LeagueDeliveries(m) ==
    SelectSeq(LeagueDeliveryListing,
              LAMBDA r : \E i \in DOMAIN m : m[i].id = r.match_id)

InitLeague ==
    \E m \in LeagueTables : InitFrom(StoredFiles(m, LeagueDeliveries(m)))

SpecLeague == InitLeague /\ [][Next]_vars

---------------------------------------------------------------------------
(* The loader on files as they are found: with team names in their old     *)
(* spelling, in file order, with a date that does not parse, with a column *)
(* or a whole file missing.  Time passes, the files are replaced, and the  *)
(* script is executed again.                                               *)

\* a match file in file order: oldest first, the first date does not parse
RawMatchListing ==
    << [Match(21, 2016, "Delhi Daredevils", MI, "Kotla", "Delhi Daredevils",
              "Delhi Daredevils", 5, 0) EXCEPT !.date = NaT],
       Match(22, 2016, "Rising Pune Supergiant", "delhi daredevils", "Pune",
             "delhi daredevils", "Rising Pune Supergiant", 0, 2),
       Match(23, 2017, MI, "Rising Pune Supergiants", "Wankhede", MI, NA, 0, 0) >>

RawDeliveryListing ==
    << Ball(21, 1, 1,  1, "Delhi Daredevils", MI, "Pant", "Bumrah", 4, 4, NA, NA),
       Ball(22, 1, 7,  2, "Rising Pune Supergiant", "delhi daredevils",
            "Dhoni", "Mishra", 0, 0, "Dhoni", "bowled"),
       Ball(23, 2, 16, 1, "Rising Pune Supergiants", MI, "Dhoni", "Bumrah",
            1, 1, NA, NA) >>

\* the match files with at least two and at most MaxMatches of the raw rows
RawMatchTables ==
    {SubTable(RawMatchListing, I) :
        I \in {J \in SUBSET DOMAIN RawMatchListing :
                  Cardinality(J) >= 2 /\ Cardinality(J) <= MaxMatches}}

\* the delivery file that goes with match file m: the raw deliveries of its matches
RawDeliveries(m) ==
    SelectSeq(RawDeliveryListing,
              LAMBDA r : \E i \in DOMAIN m : m[i].id = r.match_id)

\* a file written without column col
Drop(t, col) == [i \in DOMAIN t |-> [c \in DOMAIN t[i] \ {col} |-> t[i][c]]]

\* the storage states of the loader specification: both files as they should
\* be, one file missing, or one column missing from the header
LoadFiles ==
    {StoredFiles(m, RawDeliveries(m)) : m \in RawMatchTables}
    \cup {[matches |-> NoFile, deliveries |-> File(RawDeliveryListing)],
          [matches |-> File(RawMatchListing), deliveries |-> NoFile]}
    \cup {StoredFiles(Drop(RawMatchListing, c), RawDeliveryListing) :
             c \in {"date", "season", "team1", "venue", "id"}}
    \cup {StoredFiles(RawMatchListing, Drop(RawDeliveryListing, "match_id"))}

InitLoad == \E f \in LoadFiles : InitFrom(f)

\* the user reloads the page: the script is executed again with the widgets as
\* they are
Rerun == RunScript(CurrentRequest)

\* time passes while the cached tables are valid
Tick ==
    /\ cache.valid
    /\ cache_age < ttl
    /\ cache_age' = cache_age + ClockStep
    /\ UNCHANGED <<files, cache, loads, last_read, load_error, matches,
                   deliveries, selected_season, selected_teams, selected_venues,
                   filtered_matches, filtered_deliveries, wins_by_team,
                   win_type_counts, title_counts, team_stats, team_stats_df,
                   top_wicket_takers, toss_advantage, phase_data, phase_stats,
                   pivot_data, heatmap_data, team1_select, team2_select, h2h,
                   consistency_stats, exception, rate_call>>

\* the files of the storage are replaced
RewriteFiles ==
    /\ files' \in LoadFiles \ {files}
    /\ UNCHANGED <<cache, cache_age, loads, last_read, load_error, matches,
                   deliveries, selected_season, selected_teams, selected_venues,
                   filtered_matches, filtered_deliveries, wins_by_team,
                   win_type_counts, title_counts, team_stats, team_stats_df,
                   top_wicket_takers, toss_advantage, phase_data, phase_stats,
                   pivot_data, heatmap_data, team1_select, team2_select, h2h,
                   consistency_stats, exception, rate_call>>

NextLoad == Rerun \/ ChangeSeason \/ Tick \/ RewriteFiles

SpecLoad == InitLoad /\ [][NextLoad]_vars

---------------------------------------------------------------------------
(* Properties.  The selection predicates are written out here from the     *)
(* contract of the filter, independently of the Filter* operators.         *)

IdsOf(t) == {t[i].id : i \in DOMAIN t}

InSeasons(r) == r.season \in selected_season
InTeams(r) == r.team1 \in selected_teams \/ r.team2 \in selected_teams
InVenues(r) == r.venue \in selected_venues

\* t holds exactly the rows of base that satisfy Keep, in base's order
IsSelection(t, base, Keep(_)) == t = SelectSeq(base, Keep)

\* C1: the filtered deliveries are exactly the base deliveries whose match_id is
\* the id of a filtered match: every match_id in them is a filtered match's id,
\* and no delivery of a filtered match is dropped.
C1_ReferentialClosure ==
    /\ \A i \in DOMAIN filtered_deliveries :
           filtered_deliveries[i].match_id \in IdsOf(filtered_matches)
    /\ \A k \in DOMAIN deliveries :
           deliveries[k].match_id \in IdsOf(filtered_matches)
               => deliveries[k] \in Range(filtered_deliveries)
    /\ Len(filtered_deliveries) =
           Cardinality({k \in DOMAIN deliveries :
                           deliveries[k].match_id \in IdsOf(filtered_matches)})
    /\ Range(filtered_deliveries) \subseteq Range(deliveries)

\* a selection that leaves out a match with deliveries and keeps one with deliveries
C1_Witness ==
    /\ filtered_deliveries # <<>>
    /\ Len(filtered_deliveries) < Len(deliveries)
    /\ selected_venues # {}

\* C2: an empty selection on one axis is no restriction on that axis: the
\* filtered matches and deliveries are those of the other two selections alone,
\* and the same as with every option of the axis selected.
C2_EmptyMeansAll ==
    /\ selected_season = {} =>
         /\ IsSelection(filtered_matches, matches,
                LAMBDA r : (selected_teams = {} \/ InTeams(r))
                           /\ (selected_venues = {} \/ InVenues(r)))
         /\ filtered_matches =
                FilterMatches(matches, seasons(matches), selected_teams,
                              selected_venues)
    /\ selected_teams = {} =>
         /\ IsSelection(filtered_matches, matches,
                LAMBDA r : (selected_season = {} \/ InSeasons(r))
                           /\ (selected_venues = {} \/ InVenues(r)))
         /\ filtered_matches =
                FilterMatches(matches, selected_season, Range(teams(matches)),
                              selected_venues)
    /\ selected_venues = {} =>
         /\ IsSelection(filtered_matches, matches,
                LAMBDA r : (selected_season = {} \/ InSeasons(r))
                           /\ (selected_teams = {} \/ InTeams(r)))
         /\ filtered_matches =
                FilterMatches(matches, selected_season, selected_teams,
                              venues(matches))
    /\ (selected_season = {} \/ selected_teams = {} \/ selected_venues = {}) =>
         IsSelection(filtered_deliveries, deliveries,
             LAMBDA r : r.match_id \in IdsOf(filtered_matches))
    /\ (selected_season = {} /\ selected_teams = {} /\ selected_venues = {}) =>
         filtered_matches = matches /\ filtered_deliveries = deliveries

\* the season selection was emptied and matches are still shown
C2_Witness ==
    /\ selected_season = {}
    /\ selected_teams # {}
    /\ filtered_matches # <<>>
    /\ Len(filtered_matches) < Len(matches)

\* C3: with a non-empty team selection and no season or venue restriction, a
\* match is in the filtered matches if and only if team1 or team2 is selected.
C3_TeamFilterInclusiveOr ==
    (selected_teams # {} /\ selected_season = {} /\ selected_venues = {}) =>
        \A i \in DOMAIN matches :
            matches[i] \in Range(filtered_matches)
                <=> (matches[i].team1 \in selected_teams
                     \/ matches[i].team2 \in selected_teams)

\* a match is kept through team2 alone, and another match is filtered out
C3_Witness ==
    /\ selected_teams # {} /\ selected_season = {} /\ selected_venues = {}
    /\ \E i \in DOMAIN filtered_matches :
           /\ filtered_matches[i].team2 \in selected_teams
           /\ filtered_matches[i].team1 \notin selected_teams
    /\ Len(filtered_matches) < Len(matches)

\* the three filters applied in the order given by the permutation p of 1..3
FilterInOrder(m, p) ==
    LET Apply(k, t) ==
            IF k = 1 THEN FilterSeason(t, selected_season)
            ELSE IF k = 2 THEN FilterTeams(t, selected_teams)
            ELSE FilterVenue(t, selected_venues)
    IN  Apply(p[3], Apply(p[2], Apply(p[1], m)))

\* C4: the three predicates compose with AND: a match is in the filtered matches
\* if and only if it satisfies every predicate whose selection is non-empty,
\* whatever the order in which the three filters are applied.
C4_PredicatesComposeWithAnd ==
    /\ \A i \in DOMAIN matches :
           matches[i] \in Range(filtered_matches)
               <=> /\ (selected_season # {} => InSeasons(matches[i]))
                   /\ (selected_teams # {} => InTeams(matches[i]))
                   /\ (selected_venues # {} => InVenues(matches[i]))
    /\ \A p \in {q \in [1..3 -> 1..3] : {q[1], q[2], q[3]} = 1..3} :
           FilterInOrder(matches, p) = filtered_matches

\* all three selections are non-empty and one match passes the team filter but
\* not the venue filter
C4_Witness ==
    /\ selected_season # {} /\ selected_teams # {} /\ selected_venues # {}
    /\ \E i \in DOMAIN matches :
           /\ InSeasons(matches[i]) /\ InTeams(matches[i])
           /\ ~InVenues(matches[i])
    /\ filtered_matches # <<>>

\* C5: after every interaction the base match and delivery tables equal the
\* tables the load returned: same rows, same columns, same order.
C5_BaseTablesNotMutated ==
    /\ matches = cache.matches
    /\ deliveries = cache.deliveries
    /\ \A i \in DOMAIN deliveries : "Phase" \notin DOMAIN deliveries[i]

\* the phase-wise step ran after a filter change and added its column to
\* phase_data
C5_Witness ==
    /\ selected_venues # {}
    /\ phase_data # <<>>
    /\ \A i \in DOMAIN phase_data : "Phase" \in DOMAIN phase_data[i]
    /\ deliveries # <<>>

\* the rows of t are rows of base (whose rows are distinct), in base's order
KeepsOrderOf(t, base) ==
    \E I \in {{k \in DOMAIN base : base[k] \in Range(t)}} : t = SubTable(base, I)

\* C6: after any sequence of selection changes the filtered tables are the result
\* of filtering the base tables with the current selection alone, and their rows
\* are in the relative order of the base tables.
C6_FilterHistoryIndependent ==
    /\ filtered_matches =
           FilterMatches(cache.matches, selected_season, selected_teams,
                         selected_venues)
    /\ filtered_deliveries = FilterDeliveries(cache.deliveries, filtered_matches)
    /\ KeepsOrderOf(filtered_matches, matches)
    /\ KeepsOrderOf(filtered_deliveries, deliveries)

\* a selection was narrowed and widened again: everything is selected, by a
\* non-default selection
C6_Witness ==
    /\ selected_venues = venues(matches)
    /\ selected_venues # {}
    /\ filtered_matches = matches
    /\ Len(matches) = MaxMatches

\* teams with no match among the filtered matches
PlayedNoMatch(team) ==
    CountRows(filtered_matches,
              LAMBDA r : r.team1 = team \/ r.team2 = team) = 0

RateCalledOnZeroBalls == rate_call.fn # "none" /\ rate_call.balls = 0

\* C7 as stated: every rate is exactly 0 on a zero denominator: strike rate and
\* economy on 0 balls, toss advantage on 0 filtered matches, and the win
\* percentage of a team with 0 filtered matches (an entry of value 0, not a
\* missing entry).
C7_ZeroDenominatorGivesZero ==
    /\ RateCalledOnZeroBalls => IsZero(rate_call.result)
    /\ filtered_matches = <<>> => IsZero(TossAdvantage(filtered_matches))
    /\ Completed("win_types", exception) =>
           \A t \in Range(teams(matches)) :
               PlayedNoMatch(t) =>
                   \E i \in DOMAIN team_stats :
                       team_stats[i].Team = t /\ IsZero(team_stats[i].WinPct)

\* C7 amended: strike rate and economy on 0 balls and the toss-advantage
\* expression on 0 filtered matches are exactly 0; the win-percentage loop
\* divides for no team with 0 filtered matches and gives it no entry, and every
\* entry it gives is a number over a positive match count.
C7_ZeroDenominatorAmended ==
    /\ RateCalledOnZeroBalls => IsZero(rate_call.result)
    /\ rate_call.fn # "none" => IsNumber(rate_call.result)
    /\ filtered_matches = <<>> => IsZero(TossAdvantage(filtered_matches))
    /\ Completed("toss_advantage", exception) => IsNumber(toss_advantage)
    /\ \A t \in Range(teams(matches)) :
           PlayedNoMatch(t) =>
               \A i \in DOMAIN team_stats : team_stats[i].Team # t
    /\ \A i \in DOMAIN team_stats :
           /\ team_stats[i].Matches > 0
           /\ IsNumber(team_stats[i].WinPct)
           /\ team_stats[i].WinPct.den = team_stats[i].Matches

\* the strike rate was asked for runs off 0 balls, while the win-percentage loop
\* ran over a team without a filtered match
C7_Witness ==
    /\ rate_call.fn = "calculate_strike_rate"
    /\ rate_call.balls = 0 /\ rate_call.runs > 0
    /\ team_stats # <<>>
    /\ \E t \in Range(teams(matches)) : PlayedNoMatch(t)

\* C8 as stated: when the selection leaves zero filtered matches, every
\* aggregation returns an empty result and none raises.
C8_EmptyInputTolerated ==
    (matches # <<>> /\ filtered_matches = <<>>) =>
        /\ exception = NoException
        /\ team_stats_df = <<>>
        /\ top_wicket_takers = <<>>

RECURSIVE SumCells(_, _)
\* the sum of f over the cells S
SumCells(f, S) ==
    IF S = {} THEN 0
    ELSE LET c == CHOOSE x \in S : TRUE
         IN  f[c] + SumCells(f, S \ {c})

HasWinner(r) == r.winner # NA

\* C9: the cells of the head-to-head matrix sum to the number of filtered matches
\* with a determined winner; a match without a winner is in no cell.
C9_HeadToHeadSum ==
    Completed("head_to_head", exception) =>
        /\ SumCells(heatmap_data, DOMAIN heatmap_data) =
               CountRows(filtered_matches, HasWinner)
        /\ \A c \in DOMAIN heatmap_data :
               /\ c[1] # NA
               /\ heatmap_data[c] =
                      CountRows(filtered_matches,
                          LAMBDA r : r.winner = c[1]
                                     /\ c[2] \in {r.team1, r.team2} \ {c[1]})

\* after a filter change, the matrix was built from filtered matches of which one
\* has no winner
C9_Witness ==
    /\ Completed("head_to_head", exception)
    /\ DOMAIN heatmap_data # {}
    /\ Len(filtered_matches) < Len(matches)
    /\ \E i \in DOMAIN filtered_matches : ~HasWinner(filtered_matches[i])

\* the dismissal kinds credited to the bowler, as the claim lists them
BowlerCredited ==
    {"caught", "bowled", "lbw", "caught and bowled", "stumped", "hit wicket"}

Credited(r) == r.dismissal_kind \in BowlerCredited

\* C10: a bowler's tally is the number of filtered deliveries bowled by that
\* bowler with a bowler-credited dismissal kind; a run out, retired hurt,
\* obstructing the field or no dismissal adds to no tally.
C10_WicketTallyCreditedOnly ==
    Completed("wicket_takers", exception) =>
        /\ \A i \in DOMAIN top_wicket_takers :
               /\ top_wicket_takers[i].count =
                      CountRows(filtered_deliveries,
                          LAMBDA r : r.bowler = top_wicket_takers[i].value
                                     /\ Credited(r))
               /\ \A j \in DOMAIN top_wicket_takers :
                      top_wicket_takers[j].value = top_wicket_takers[i].value
                          => i = j
        /\ LET bowlers == {filtered_deliveries[k].bowler :
                              k \in {n \in DOMAIN filtered_deliveries :
                                        Credited(filtered_deliveries[n])}}
           IN  Cardinality(bowlers) <= TopN =>
                   bowlers = {top_wicket_takers[i].value :
                                 i \in DOMAIN top_wicket_takers}

\* after a filter change, a listed bowler also bowled a filtered delivery that
\* ended in a run out
C10_Witness ==
    /\ Completed("wicket_takers", exception)
    /\ Len(filtered_deliveries) < Len(deliveries)
    /\ \E i \in DOMAIN top_wicket_takers :
           \E k \in DOMAIN filtered_deliveries :
               /\ filtered_deliveries[k].bowler = top_wicket_takers[i].value
               /\ filtered_deliveries[k].dismissal_kind = "run out"

\* the phase the claim gives an over: below 6 Powerplay, 6 to 14 Middle, 15 and
\* above Death
PhaseOfOver(over) ==
    CASE over < 6 -> "Powerplay (1-6)"
      [] over >= 6 /\ over < 15 -> "Middle (7-15)"
      [] over >= 15 -> "Death (16-20)"

\* C11: every filtered delivery is given exactly one phase, by strict less-than
\* boundaries on its over (5 Powerplay, 6 and 14 Middle, 15 Death), and the runs,
\* wickets and balls of the phases add up to those of all filtered deliveries.
C11_PhasePartition ==
    Completed("phase", exception) =>
        /\ Len(phase_data) = Len(filtered_deliveries)
        /\ \A i \in DOMAIN phase_data :
               /\ phase_data[i].Phase = PhaseOfOver(filtered_deliveries[i].over)
               /\ phase_data[i].over = 5 => phase_data[i].Phase = "Powerplay (1-6)"
               /\ phase_data[i].over \in {6, 14}
                      => phase_data[i].Phase = "Middle (7-15)"
               /\ phase_data[i].over = 15 => phase_data[i].Phase = "Death (16-20)"
               /\ \A c \in DOMAIN filtered_deliveries[i] :
                      phase_data[i][c] = filtered_deliveries[i][c]
        /\ \A i, j \in DOMAIN phase_stats :
               phase_stats[i].Phase = phase_stats[j].Phase => i = j
        /\ SumOf([i \in DOMAIN phase_stats |-> phase_stats[i].total_runs]) =
               SumOf([k \in DOMAIN filtered_deliveries |->
                         filtered_deliveries[k].total_runs])
        /\ SumOf([i \in DOMAIN phase_stats |-> phase_stats[i].player_dismissed]) =
               CountRows(filtered_deliveries, LAMBDA r : r.player_dismissed # NA)
        /\ SumOf([i \in DOMAIN phase_stats |-> phase_stats[i].ball]) =
               Len(filtered_deliveries)

\* after a filter change the filtered deliveries hold overs 5, 6, 14 and 15, and all
\* three phases have a row
C11_Witness ==
    /\ Completed("phase", exception)
    /\ Len(filtered_deliveries) < Len(deliveries)
    /\ {5, 6, 14, 15} \subseteq
           {filtered_deliveries[k].over : k \in DOMAIN filtered_deliveries}
    /\ Len(phase_stats) = 3

\* the header of a file that has rows
HeaderOf(file) == DOMAIN file.rows[1]

\* the columns the script reads from the two files
RequiredMatchColumns ==
    {"id", "date", "season", "team1", "team2", "venue", "toss_winner", "winner",
     "win_by_runs", "win_by_wickets"}

RequiredDeliveryColumns ==
    {"match_id", "inning", "over", "ball", "batting_team", "bowling_team",
     "batsman", "bowler", "batsman_runs", "total_runs", "player_dismissed",
     "dismissal_kind"}

\* both files are there and one of them lacks a required column
LacksRequiredColumn(f) ==
    /\ f.matches.exists /\ f.deliveries.exists
    /\ f.matches.rows # <<>> /\ f.deliveries.rows # <<>>
    /\ \/ ~(RequiredMatchColumns \subseteq HeaderOf(f.matches))
       \/ ~(RequiredDeliveryColumns \subseteq HeaderOf(f.deliveries))

\* C12 as stated: a load from files of which one lacks a required column fails:
\* it reports an error, caches nothing and returns no tables to the script.
C12_MissingColumnFailsLoad ==
    LacksRequiredColumn(last_read.files) =>
        /\ last_read.error # "none"
        /\ load_error # "none"
        /\ ~cache.valid
        /\ matches = <<>> /\ deliveries = <<>>

\* C13: a run whose load failed reported the error and stopped there: it bound
\* no table, drew no widget, ran no filter and no aggregation, cached nothing.
C13_LoadFailureHalts ==
    last_read.error # "none" =>
        /\ load_error = last_read.error
        /\ exception = [type |-> "StopException", at |-> "load"]
        /\ ~cache.valid
        /\ matches = <<>> /\ deliveries = <<>>
        /\ selected_season = {} /\ selected_teams = {} /\ selected_venues = {}
        /\ filtered_matches = <<>> /\ filtered_deliveries = <<>>
        /\ wins_by_team = <<>> /\ win_type_counts = <<>> /\ title_counts = <<>>
        /\ team_stats = <<>> /\ team_stats_df = <<>>
        /\ top_wicket_takers = <<>> /\ toss_advantage = Unset
        /\ phase_data = <<>> /\ phase_stats = <<>>
        /\ pivot_data = <<>> /\ heatmap_data = <<>>
        /\ ~h2h.shown /\ consistency_stats = <<>>

\* a reload failed on a match file without its date column, after a load that
\* had succeeded
C13_Witness ==
    /\ loads > 1
    /\ last_read.error = "KeyError"
    /\ last_read.files.matches.exists
    /\ "date" \notin HeaderOf(last_read.files.matches)

\* the alias map, as the claim has it
CanonicalName(v) ==
    CASE v = "Rising Pune Supergiant" -> "Rising Pune Supergiants"
      [] v = "Delhi Daredevils" -> "Delhi Capitals"
      [] OTHER -> v

AliasKeys == {"Rising Pune Supergiant", "Delhi Daredevils"}

\* row r of a file as the load must return it: the team columns of `cols` hold
\* canonical names, every other cell but the date is untouched
Normalised(r, cols) ==
    [c \in DOMAIN r |->
        IF c \in cols THEN CanonicalName(r[c])
        ELSE IF c = "date" THEN (IF r[c] > 0 THEN r[c] ELSE NaT)
        ELSE r[c]]

\* C14: after a successful load no team column of the cached tables holds an
\* alias key, and the cached rows are the rows of the files with every alias key
\* in a team column replaced by its canonical name and nothing else changed.
C14_AliasesNormalised ==
    last_read.error = "none" =>
        /\ cache.valid
        /\ \A i \in DOMAIN cache.matches :
               \A c \in DOMAIN cache.matches[i] \cap
                         {"team1", "team2", "winner", "toss_winner"} :
                   cache.matches[i][c] \notin AliasKeys
        /\ \A i \in DOMAIN cache.deliveries :
               \A c \in DOMAIN cache.deliveries[i] \cap
                         {"batting_team", "bowling_team"} :
                   cache.deliveries[i][c] \notin AliasKeys
        /\ Len(cache.matches) = Len(last_read.files.matches.rows)
        /\ Range(cache.matches) =
               {Normalised(r, {"team1", "team2", "winner", "toss_winner"}) :
                   r \in Range(last_read.files.matches.rows)}
        /\ cache.deliveries =
               [i \in DOMAIN last_read.files.deliveries.rows |->
                   Normalised(last_read.files.deliveries.rows[i],
                              {"batting_team", "bowling_team"})]

\* a reload read files with both alias keys and a lower-case spelling; the
\* cached tables hold the two canonical names and the lower-case spelling
C14_Witness ==
    /\ loads > 1
    /\ last_read.error = "none"
    /\ \E r \in Range(last_read.files.matches.rows) :
           r.winner = "Delhi Daredevils"
    /\ \E r \in Range(last_read.files.deliveries.rows) :
           r.batting_team = "Rising Pune Supergiant"
    /\ \E i \in DOMAIN cache.matches :
           /\ cache.matches[i].winner = "Rising Pune Supergiants"
           /\ cache.matches[i].team2 = "delhi daredevils"
    /\ \E i \in DOMAIN cache.matches : cache.matches[i].winner = "Delhi Capitals"

\* C15: while the cached tables are valid and younger than ttl, no step reads
\* the files or writes the cache, and every run binds the cached tables; the
\* cache is written only by a step that read the files, once.
C15_OneLoadPerEpoch ==
    [][/\ (cache.valid /\ cache_age < ttl) =>
              /\ loads' = loads
              /\ cache' = cache
              /\ matches' = cache.matches
              /\ deliveries' = cache.deliveries
       /\ cache' # cache => loads' = loads + 1
       /\ loads' # loads => cache_age' = 0]_vars

\* in a second epoch the files were replaced and the user changed the season
\* selection, and the cached tables are still those of the epoch's one load
C15_Witness ==
    /\ cache.valid
    /\ loads = 2
    /\ cache_age > 0 /\ cache_age < ttl
    /\ files # last_read.files
    /\ LacksRequiredColumn(files)
    /\ selected_season # seasons(matches)
    /\ matches = cache.matches

\* the wins of team t among the filtered matches of season s
SeasonWins(s, t) ==
    CountRows(filtered_matches, LAMBDA r : r.season = s /\ r.winner = t)

\* the teams that won a filtered match of season s
WinnersOf(s) ==
    {filtered_matches[i].winner :
        i \in {k \in DOMAIN filtered_matches :
                  /\ filtered_matches[k].season = s
                  /\ HasWinner(filtered_matches[k])}}

\* the seasons of the filtered matches that have a determined winner
DecidedSeasons == {s \in seasons(filtered_matches) : WinnersOf(s) # {}}

\* the place of a team name in the sort order of the names
NameRank(t) == CHOOSE k \in DOMAIN TeamOrder : TeamOrder[k] = t

\* the team the claim selects for season s: most wins, ties to the name that
\* sorts first
SeasonChampion(s) ==
    CHOOSE t \in WinnersOf(s) :
        \A u \in WinnersOf(s) :
            \/ SeasonWins(s, u) < SeasonWins(s, t)
            \/ (SeasonWins(s, u) = SeasonWins(s, t) /\ NameRank(t) <= NameRank(u))

\* C17: each season of the filtered matches with a determined winner gives one
\* title, to the team with the most wins in it, ties to the team first in the
\* (season, winner) sort order; the titles sum to the number of such seasons.
C17_TitleWinners ==
    Completed("titles", exception) =>
        /\ \A i \in DOMAIN title_counts :
               /\ title_counts[i].count > 0
               /\ title_counts[i].count =
                      Cardinality({s \in DecidedSeasons :
                                      SeasonChampion(s) = title_counts[i].value})
               /\ \A j \in DOMAIN title_counts :
                      title_counts[j].value = title_counts[i].value => i = j
        /\ \A s \in DecidedSeasons :
               \E i \in DOMAIN title_counts :
                   title_counts[i].value = SeasonChampion(s)
        /\ SumOf([i \in DOMAIN title_counts |-> title_counts[i].count]) =
               Cardinality(DecidedSeasons)

\* after a filter change, two teams tie for the most wins of a season, and the
\* one that sorts first is not the winner of the first filtered match of it
C17_Witness ==
    /\ Completed("titles", exception)
    /\ Len(filtered_matches) < Len(matches)
    /\ \E s \in DecidedSeasons :
           /\ \E u \in WinnersOf(s) \ {SeasonChampion(s)} :
                  SeasonWins(s, u) = SeasonWins(s, SeasonChampion(s))
           /\ \E i \in DOMAIN filtered_matches :
                  /\ filtered_matches[i].season = s
                  /\ HasWinner(filtered_matches[i])
                  /\ filtered_matches[i].winner # SeasonChampion(s)
                  /\ \A k \in 1..(i - 1) : filtered_matches[k].season # s

\* C18 as stated: every team that is team1 or team2 of a loaded match is in the
\* team list, and every team that played a filtered match has a win-percentage
\* entry.
C18_TeamListComplete ==
    /\ Completed("sidebar", exception) =>
           \A i \in DOMAIN matches :
               {matches[i].team1, matches[i].team2} \subseteq
                   Range(teams(matches))
    /\ Completed("titles", exception) =>
           \A i \in DOMAIN filtered_matches :
               {filtered_matches[i].team1, filtered_matches[i].team2} \subseteq
                   {team_stats[k].Team : k \in DOMAIN team_stats}

\* the filtered matches between teams x and y, whichever is team1
Between(x, y) ==
    {i \in DOMAIN filtered_matches :
        {filtered_matches[i].team1, filtered_matches[i].team2} = {x, y}}

\* C20: the comparison of two distinct teams X and Y is over the filtered matches
\* whose sides are X and Y in either order; the two win counts are the matches
\* of these each team won, they add up to the total less the matches without a
\* winner, and comparing Y with X swaps the win counts and keeps the total.
C20_TwoTeamComparison ==
    /\ h2h.shown <=>
           /\ Completed("compare", exception)
           /\ team1_select # NA /\ team2_select # NA
           /\ team1_select # team2_select
    /\ h2h.shown =>
           /\ h2h.total_h2h = Cardinality(Between(team1_select, team2_select))
           /\ h2h.team1_wins =
                  Cardinality({i \in Between(team1_select, team2_select) :
                                  filtered_matches[i].winner = team1_select})
           /\ h2h.team2_wins =
                  Cardinality({i \in Between(team1_select, team2_select) :
                                  filtered_matches[i].winner = team2_select})
           /\ h2h.team1_wins + h2h.team2_wins <= h2h.total_h2h
           /\ h2h.total_h2h - (h2h.team1_wins + h2h.team2_wins) =
                  Cardinality({i \in Between(team1_select, team2_select) :
                                  ~HasWinner(filtered_matches[i])})
           /\ HeadToHead(filtered_matches, team2_select, team1_select) =
                  [shown |-> TRUE, team1_wins |-> h2h.team2_wins,
                   team2_wins |-> h2h.team1_wins, total_h2h |-> h2h.total_h2h]

\* the user has chosen the two teams; they met as team1 and team2 both ways
\* round, one of the meetings has no winner, and another filtered match is not
\* between them
C20_Witness ==
    /\ h2h.shown
    /\ team1_select # DefaultTeam1(teams(matches))
    /\ \E i, j \in Between(team1_select, team2_select) :
           filtered_matches[i].team1 = filtered_matches[j].team2
    /\ h2h.team1_wins + h2h.team2_wins < h2h.total_h2h
    /\ h2h.team1_wins + h2h.team2_wins > 0
    /\ h2h.total_h2h < Len(filtered_matches)

---------------------------------------------------------------------------
(* Wins by team (lines 338-340).                                           *)

\* the teams that won a filtered match
WinningTeams ==
    {filtered_matches[i].winner :
        i \in {k \in DOMAIN filtered_matches : HasWinner(filtered_matches[k])}}

\* the filtered matches won by team t
WinCount(t) ==
    Cardinality({k \in DOMAIN filtered_matches : filtered_matches[k].winner = t})

\* the filtered matches with a determined winner
DecidedMatches ==
    Cardinality({k \in DOMAIN filtered_matches : HasWinner(filtered_matches[k])})

ListedTeams == {wins_by_team[i].value : i \in DOMAIN wins_by_team}

ListedWins == SumOf([i \in DOMAIN wins_by_team |-> wins_by_team[i].count])

WinsDescending ==
    \A i, j \in DOMAIN wins_by_team :
        i < j => wins_by_team[i].count >= wins_by_team[j].count

\* C16 as stated: wins by team lists every team that won a filtered match with
\* the number of filtered matches it won, in descending order of that number,
\* and the numbers sum to the number of filtered matches with a winner.
C16_WinsByTeam ==
    Completed("wins_by_team", exception) =>
        /\ \A t \in WinningTeams :
               \E i \in DOMAIN wins_by_team :
                   /\ wins_by_team[i].value = t
                   /\ wins_by_team[i].count = WinCount(t)
        /\ WinsDescending
        /\ ListedWins = DecidedMatches

\* C16 amended: wins by team lists the ten teams with the most wins among the
\* filtered matches (every winning team when at most ten teams won), each once
\* with the number of filtered matches it won, in descending order of that
\* number; no team left out won more than a listed one, and the numbers sum to
\* the number of filtered matches with a winner when at most ten teams won.
C16_WinsByTeamTopTen ==
    Completed("wins_by_team", exception) =>
        /\ \A i \in DOMAIN wins_by_team :
               /\ wins_by_team[i].value \in WinningTeams
               /\ wins_by_team[i].count = WinCount(wins_by_team[i].value)
               /\ \A j \in DOMAIN wins_by_team :
                      wins_by_team[j].value = wins_by_team[i].value => i = j
        /\ WinsDescending
        /\ Len(wins_by_team) =
               (IF Cardinality(WinningTeams) <= TopN
                THEN Cardinality(WinningTeams) ELSE TopN)
        /\ \A t \in WinningTeams \ ListedTeams :
               \A i \in DOMAIN wins_by_team : WinCount(t) <= wins_by_team[i].count
        /\ Cardinality(WinningTeams) <= TopN => ListedWins = DecidedMatches

\* after a change of the team filter more than ten teams have won a filtered
\* match, one of them more often than another
C16_Witness ==
    /\ Completed("wins_by_team", exception)
    /\ selected_teams # DefaultTeams(matches)
    /\ Cardinality(WinningTeams) > TopN
    /\ Len(wins_by_team) = TopN
    /\ wins_by_team[1].count > wins_by_team[TopN].count
    /\ ListedWins < DecidedMatches

---------------------------------------------------------------------------
(* Win percentages (lines 439-450, 955-971).                               *)

\* the filtered matches team t played, on either side
Played(t) ==
    Cardinality({k \in DOMAIN filtered_matches :
                    \/ filtered_matches[k].team1 = t
                    \/ filtered_matches[k].team2 = t})

\* every team named in the filtered matches or offered by the team filter
NamedTeams ==
    Range(teams(matches)) \cup
    {filtered_matches[k].team1 : k \in DOMAIN filtered_matches} \cup
    {filtered_matches[k].team2 : k \in DOMAIN filtered_matches}

\* the winner of every filtered match is one of its two sides, or absent
WinnerIsASide ==
    \A k \in DOMAIN filtered_matches :
        filtered_matches[k].winner \in
            {filtered_matches[k].team1, filtered_matches[k].team2, NA}

\* the row reports wins / played * 100 of its team, a number from 0 to 100
PercentageOfTeam(row) ==
    /\ row.WinPct = Frac(WinCount(row.Team) * 100, Played(row.Team))
    /\ row.Matches = Played(row.Team)
    /\ row.WinPct.num >= 0
    /\ row.WinPct.num <= 100 * row.WinPct.den

\* C19: with the winner of every match one of its sides or absent, a team wins
\* at most as many filtered matches as it played, and every win percentage of
\* the Win Percentage view and of the Consistent Teams view is wins / played *
\* 100, between 0 and 100.
C19_WinPercentageInRange ==
    (Completed("filter", exception) /\ WinnerIsASide) =>
        /\ \A t \in NamedTeams : WinCount(t) <= Played(t)
        /\ Completed("titles", exception) =>
               \A i \in DOMAIN team_stats : PercentageOfTeam(team_stats[i])
        /\ Completed("team_stats", exception) =>
               \A i \in DOMAIN team_stats_df : PercentageOfTeam(team_stats_df[i])
        /\ Completed("compare", exception) =>
               \A i \in DOMAIN consistency_stats :
                   /\ PercentageOfTeam(consistency_stats[i])
                   /\ consistency_stats[i].Wins = WinCount(consistency_stats[i].Team)
                   /\ consistency_stats[i].Matches >= MinMatches

\* after a change of the team filter the run reaches its end, and a team of the
\* Consistent Teams view has won some but not all of its matches, one of them as
\* team2
C19_Witness ==
    /\ exception = NoException
    /\ selected_teams # DefaultTeams(matches)
    /\ team_stats_df # <<>>
    /\ \E i \in DOMAIN consistency_stats :
           /\ consistency_stats[i].Wins > 1
           /\ consistency_stats[i].Wins < consistency_stats[i].Matches
           /\ \E k \in DOMAIN filtered_matches :
                  /\ filtered_matches[k].team2 = consistency_stats[i].Team
                  /\ filtered_matches[k].winner = consistency_stats[i].Team

====
